---- MODULE Spec2Model ----
(***************************************************************************)
(* Model of the plan-execution engine of FreeU (src/src/core/              *)
(* file_executor.py): FileExecutor.execute_actions and its helpers         *)
(* _execute_single_action, _is_path_safe and _generate_unique_filename,    *)
(* over a filesystem of directories and regular files (no symlinks).       *)
(*                                                                         *)
(* A file or directory name is a sequence of characters, a path is a       *)
(* sequence of names, and the filesystem maps every existing canonical     *)
(* path to "dir" or to the content of the regular file stored there.       *)
(***************************************************************************)
EXTENDS Integers, Sequences, FiniteSets, TLC

(***************************************************************************)
(* Bounds of the model.                                                    *)
(***************************************************************************)
\* longest plan handed to execute_actions
MaxActions == 2

(***************************************************************************)
(* Names.                                                                  *)
(***************************************************************************)
DotDot == <<".", ".">>
Slash == <<"/">>
W == <<"w">>
W2 == <<"w", "2">>
O == <<"o">>
U == <<"u">>
E == <<"e">>
S == <<"s">>
X == <<"x">>
B == <<"b">>
M == <<"m">>
AT == <<"a", ".", "t">>
\* "~" and "~z" (a user without a home directory) as first components of
\* an exclusion entry; NUL stands for the character "\\0" in a name
Tilde == <<"~">>
TildeZ == <<"~", "z">>
NUL == "^"
BadName == <<"x", NUL>>
AT1 == <<"a", "_", "1", ".", "t">>

DigitChars == <<"0", "1", "2", "3", "4", "5", "6", "7", "8", "9">>

\* str(counter) inside the f-string of _generate_unique_filename
RECURSIVE IntToStr(_)
IntToStr(n) ==
    IF n < 10 THEN <<DigitChars[n + 1]>>
    ELSE IntToStr(n \div 10) \o <<DigitChars[(n % 10) + 1]>>

(***************************************************************************)
(* pathlib: pure path arithmetic.                                          *)
(***************************************************************************)
\* Path.parent: lexical, the root is its own parent
PathParent(p) == IF p = <<>> THEN <<>> ELSE SubSeq(p, 1, Len(p) - 1)

\* Path.name: the last component, '' for the root or an empty path
PathName(p) == IF p = <<>> THEN <<>> ELSE p[Len(p)]

\* base / s : an absolute right operand replaces the left one
PathJoin(base, s) ==
    IF s # <<>> /\ s[1] = Slash THEN Tail(s) ELSE base \o s

\* 1-based index of the last "." of a name, 0 when there is none
RECURSIVE RFindDot(_, _)
RFindDot(name, i) ==
    IF i = 0 THEN 0
    ELSE IF name[i] = "." THEN i
    ELSE RFindDot(name, i - 1)

\* Path.suffix: name[i:] when the last dot is neither first nor last
PathSuffix(p) ==
    LET name == PathName(p)
        i == RFindDot(name, Len(name))
    IN IF 1 < i /\ i < Len(name) THEN SubSeq(name, i, Len(name)) ELSE <<>>

\* Path.stem: name[:i] under the same condition, else the whole name
PathStem(p) ==
    LET name == PathName(p)
        i == RFindDot(name, Len(name))
    IN IF 1 < i /\ i < Len(name) THEN SubSeq(name, 1, i - 1) ELSE name

\* Path.resolve() without symlinks: ".." pops the previous component
RECURSIVE ResolveFrom(_, _)
ResolveFrom(acc, rest) ==
    IF rest = <<>> THEN acc
    ELSE IF Head(rest) = DotDot THEN ResolveFrom(PathParent(acc), Tail(rest))
    ELSE ResolveFrom(Append(acc, Head(rest)), Tail(rest))

PathResolve(p) == ResolveFrom(<<>>, p)

\* str(path) of an absolute path, as a sequence of characters
RECURSIVE JoinParts(_)
JoinParts(p) ==
    IF p = <<>> THEN <<>> ELSE Slash \o Head(p) \o JoinParts(Tail(p))

PathStr(p) == IF p = <<>> THEN Slash ELSE JoinParts(p)

\* str.startswith
StartsWith(s, prefix) ==
    /\ Len(prefix) <= Len(s)
    /\ SubSeq(s, 1, Len(prefix)) = prefix

\* Path.relative_to(base): defined only when base's parts lead the path
IsRelativeTo(p, base) ==
    /\ Len(base) <= Len(p)
    /\ SubSeq(p, 1, Len(base)) = base

\* as RelativeTo, but the path is returned as it is
RelativeToIdentity(p, base) == p

RelativeTo(p, base) == SubSeq(p, Len(base) + 1, Len(p))

\* the path is the directory itself or lies below it (canonical forms)
IsDescendantOrSelf(p, dir) == IsRelativeTo(PathResolve(p), PathResolve(dir))

(***************************************************************************)
(* The operating system's view of a path on filesystem f.                  *)
(***************************************************************************)
\* walk the components: every step but the last needs a directory
RECURSIVE WalkFrom(_, _, _)
WalkFrom(f, cur, rest) ==
    IF rest = <<>> THEN [ok |-> TRUE, path |-> cur, err |-> "none"]
    ELSE IF cur \notin DOMAIN f THEN [ok |-> FALSE, path |-> cur, err |-> "ENOENT"]
    ELSE IF f[cur] # "dir" THEN [ok |-> FALSE, path |-> cur, err |-> "ENOTDIR"]
    ELSE IF Head(rest) = DotDot THEN WalkFrom(f, PathParent(cur), Tail(rest))
    ELSE WalkFrom(f, Append(cur, Head(rest)), Tail(rest))

Walk(f, p) == WalkFrom(f, <<>>, p)

\* Path.exists()
PathExists(f, p) ==
    LET w == Walk(f, p) IN w.ok /\ w.path \in DOMAIN f

\* as PathIsFile, but a directory passes too
PathIsFileOrDir(f, p) ==
    LET w == Walk(f, p) IN w.ok /\ w.path \in DOMAIN f

\* Path.is_file()
PathIsFile(f, p) ==
    LET w == Walk(f, p) IN w.ok /\ w.path \in DOMAIN f /\ f[w.path] # "dir"

\* Path.is_dir()
PathIsDir(f, p) ==
    LET w == Walk(f, p) IN w.ok /\ w.path \in DOMAIN f /\ f[w.path] = "dir"

\* f with path p bound to v
FsPut(f, p, v) == [q \in (DOMAIN f) \cup {p} |-> IF q = p THEN v ELSE f[q]]

\* f without path p
FsDel(f, p) == [q \in (DOMAIN f) \ {p} |-> f[q]]

\* os.mkdir(p)
OsMkdir(f, p) ==
    LET w == Walk(f, p)
    IN IF ~w.ok THEN [ok |-> FALSE, fs |-> f, err |-> w.err]
       ELSE IF w.path \in DOMAIN f THEN [ok |-> FALSE, fs |-> f, err |-> "EEXIST"]
       ELSE [ok |-> TRUE, fs |-> FsPut(f, w.path, "dir"), err |-> "none"]

\* as PathMkdir, but with parents=False
PathMkdirNoParents(f, p) ==
    LET r == OsMkdir(f, p)
    IN IF r.ok THEN r
       ELSE IF r.err # "ENOENT" /\ PathIsDir(f, p)
       THEN [ok |-> TRUE, fs |-> f, err |-> "none"]
       ELSE r

\* as PathMkdir, but a failure is passed over in silence
PathMkdirIgnoreErrors(f, p) ==
    LET r == PathMkdirNoParents(f, p)
    IN [ok |-> TRUE, fs |-> r.fs, err |-> "none"]

\* Path.mkdir(parents=True, exist_ok=True)
RECURSIVE PathMkdir(_, _)
PathMkdir(f, p) ==
    LET r == OsMkdir(f, p)
    IN IF r.ok THEN r
       ELSE IF r.err = "ENOENT"
       THEN IF PathParent(p) = p THEN r
            ELSE LET q == PathMkdir(f, PathParent(p))
                 IN IF ~q.ok THEN q
                    ELSE LET r2 == OsMkdir(q.fs, p)
                         IN IF r2.ok THEN r2
                            ELSE IF r2.err # "ENOENT" /\ PathIsDir(q.fs, p)
                            THEN [ok |-> TRUE, fs |-> q.fs, err |-> "none"]
                            ELSE r2
       ELSE IF PathIsDir(f, p) THEN [ok |-> TRUE, fs |-> f, err |-> "none"]
       ELSE r

\* os.rename(src, dst) for a regular file src: replaces a regular file at
\* dst silently, refuses a directory at dst or a missing parent of dst
OsRename(f, src, dst) ==
    LET ws == Walk(f, src)
        wd == Walk(f, dst)
    IN IF ~ws.ok \/ ws.path \notin DOMAIN f
       THEN [ok |-> FALSE, fs |-> f, err |-> "ENOENT"]
       ELSE IF ~wd.ok THEN [ok |-> FALSE, fs |-> f, err |-> wd.err]
       ELSE IF wd.path \in DOMAIN f /\ f[wd.path] = "dir"
       THEN [ok |-> FALSE, fs |-> f, err |-> "EISDIR"]
       ELSE IF wd.path = ws.path THEN [ok |-> TRUE, fs |-> f, err |-> "none"]
       ELSE [ok |-> TRUE,
             fs |-> FsPut(FsDel(f, ws.path), wd.path, f[ws.path]),
             err |-> "none"]

\* shutil.move(src, dst) for a regular file src
ShutilMove(f, src, dst) ==
    LET into == PathIsDir(f, dst)
        real_dst == IF into THEN Append(dst, PathName(src)) ELSE dst
    IN IF into /\ PathExists(f, real_dst)
       THEN [ok |-> FALSE, fs |-> f, err |-> "EEXIST"]
       ELSE OsRename(f, src, real_dst)

(***************************************************************************)
(* FileExecutor helpers.                                                   *)
(***************************************************************************)
\* the counter value above which _generate_unique_filename gives up
MaxCounter == 999

\* the home directory of the user: the base directory of the executor
Home == <<W>>

\* Path.expanduser() of an exclusion entry: "~" is replaced by the home
\* directory, "~user" of an unknown user raises RuntimeError, any other
\* path is returned as it is
ExpandUser(p) ==
    IF p = <<>> \/ p[1] = <<>> \/ p[1][1] # "~"
    THEN [raised |-> "none", path |-> p]
    ELSE IF p[1] = Tilde
    THEN [raised |-> "none", path |-> Home \o Tail(p)]
    ELSE [raised |-> "RuntimeError", path |-> p]

\* Path.resolve() raises ValueError on a name with an embedded NUL
ResolveRaises(p) ==
    \E n \in 1..Len(p) : \E c \in 1..Len(p[n]) : p[n][c] = NUL

\* as ExcludedLoop, but no entry is compared
ExcludedLoopSkip(resolved_path, excluded, k) ==
    [raised |-> "none", value |-> TRUE]

\* the for-loop of _is_path_safe over config.excluded_paths, from entry k:
\* the value returned, or the exception raised by expanduser / resolve
RECURSIVE ExcludedLoop(_, _, _)
ExcludedLoop(resolved_path, excluded, k) ==
    IF k > Len(excluded) THEN [raised |-> "none", value |-> TRUE]
    ELSE LET expanded == ExpandUser(excluded[k])
         IN IF expanded.raised # "none"
            THEN [raised |-> expanded.raised, value |-> FALSE]
            ELSE IF ResolveRaises(expanded.path)
            THEN [raised |-> "ValueError", value |-> FALSE]
            ELSE IF StartsWith(PathStr(resolved_path),
                               PathStr(PathResolve(expanded.path)))
            THEN [raised |-> "none", value |-> FALSE]
            ELSE ExcludedLoop(resolved_path, excluded, k + 1)

\* the try block of _is_path_safe: string-prefix tests on the resolved
\* path
IsPathSafeBody(base, excluded, path) ==
    IF ResolveRaises(path) THEN [raised |-> "ValueError", value |-> FALSE]
    ELSE LET resolved_path == PathResolve(path)
         IN IF ~StartsWith(PathStr(resolved_path), PathStr(base))
            THEN [raised |-> "none", value |-> FALSE]
            ELSE ExcludedLoop(resolved_path, excluded, 1)

\* as ExceptionMatches, for handlers written `except OSError`
ExceptionMatchesOSError(exc) == exc = "OSError"

\* as ExceptionMatches, but RuntimeError is not matched
ExceptionMatchesNoRuntimeError(exc) ==
    exc \in {"ValueError", "OSError", "NameError"}

\* `except Exception`: every exception raised here is an Exception
ExceptionMatches(exc) ==
    exc \in {"ValueError", "OSError", "NameError", "RuntimeError"}

\* as IsPathSafeTry, but every path is accepted
IsPathSafeTryAcceptAll(base, excluded, path) ==
    [raised |-> "none", value |-> TRUE]

\* FileExecutor._is_path_safe with its handler: the value returned, or
\* the exception the handler did not match
IsPathSafeTry(base, excluded, path) ==
    LET r == IsPathSafeBody(base, excluded, path)
    IN IF r.raised = "none" THEN r
       ELSE IF ExceptionMatches(r.raised)
       THEN [raised |-> "none", value |-> FALSE]
       ELSE r

\* FileExecutor._is_path_safe: the value returned
IsPathSafe(base, excluded, path) == IsPathSafeTry(base, excluded, path).value

\* the candidate tested in round `counter` of _generate_unique_filename
Candidate(path, counter) ==
    Append(PathParent(path),
           PathStem(path) \o <<"_">> \o IntToStr(counter) \o PathSuffix(path))

\* the rounds lo..hi of the while-loop of _generate_unique_filename, in
\* increasing order: the first counter of lo..hi whose candidate does not
\* exist (the round that returns), 0 when every candidate of lo..hi exists
RECURSIVE FirstFree(_, _, _, _)
FirstFree(f, path, lo, hi) ==
    IF lo > hi THEN 0
    ELSE IF lo = hi
    THEN IF PathExists(f, Candidate(path, lo)) THEN 0 ELSE lo
    ELSE LET mid == (lo + hi) \div 2
             first == FirstFree(f, path, lo, mid)
         IN IF first # 0 THEN first ELSE FirstFree(f, path, mid + 1, hi)

\* as UniqueLoop, but the first round is skipped
UniqueLoopSkipFirst(f, path, counter) ==
    LET k == FirstFree(f, path, counter + 1, MaxCounter)
    IN IF k # 0
       THEN [raised |-> FALSE, path |-> Candidate(path, k),
             tested |-> k - counter]
       ELSE [raised |-> TRUE, path |-> path,
             tested |-> MaxCounter - counter]

\* as UniqueLoop, but the counter is compared after one more round
UniqueLoopOneMore(f, path, counter) ==
    LET k == FirstFree(f, path, counter, MaxCounter + 1)
    IN IF k # 0
       THEN [raised |-> FALSE, path |-> Candidate(path, k),
             tested |-> k - counter + 1]
       ELSE [raised |-> TRUE, path |-> path,
             tested |-> MaxCounter - counter + 2]

\* the while-loop of _generate_unique_filename, entered with `counter`:
\* round k tests candidate k and returns it when it is free; the loop
\* raises ValueError once the incremented counter exceeds MaxCounter, so
\* the last round is round MaxCounter
UniqueLoop(f, path, counter) ==
    LET k == FirstFree(f, path, counter, MaxCounter)
    IN IF k # 0
       THEN [raised |-> FALSE, path |-> Candidate(path, k),
             tested |-> k - counter + 1]
       ELSE [raised |-> TRUE, path |-> path,
             tested |-> MaxCounter - counter + 1]

\* as GenerateUniqueFilename, but an occupied path is returned as it is
GenerateUniqueFilenameSame(f, path) ==
    [raised |-> FALSE, path |-> path, tested |-> 0]

\* FileExecutor._generate_unique_filename: the path returned (or the
\* ValueError raised) and the number of candidates tested
GenerateUniqueFilename(f, path) ==
    IF ~PathExists(f, path)
    THEN [raised |-> FALSE, path |-> path, tested |-> 0]
    ELSE UniqueLoop(f, path, 1)

\* as ResolveCollision, but the occupied destination is kept
ResolveCollisionKeep(f, destination_path) ==
    [raised |-> FALSE, path |-> destination_path, tested |-> 0]

\* the branch at the collision check of _execute_single_action
ResolveCollision(f, destination_path) ==
    IF PathExists(f, destination_path)
    THEN GenerateUniqueFilename(f, destination_path)
    ELSE [raised |-> FALSE, path |-> destination_path, tested |-> 0]

\* Path(action.destination).name
StrPathName(s) ==
    IF s # <<>> /\ s[1] = Slash THEN PathName(Tail(s)) ELSE PathName(s)

\* as SourceExists, but the inventory is trusted
SourceExistsInInventory(f, source_path, action, inventory) ==
    \E n \in 1..Len(inventory) : inventory[n] = action.source

\* the existence test of the source: source_path.exists() on the disk; the
\* inventory handed to _execute_single_action is not consulted
SourceExists(f, source_path, action, inventory) == PathExists(f, source_path)

\* as SupportedType, but the action type is not checked
SupportedTypeAny(action_type) == TRUE

\* as SupportedType, with the copy operation allowed
SupportedTypeWithCopy(action_type) == action_type \in {"move", "copy"}

\* the action types _execute_single_action carries out
SupportedType(action_type) == action_type = "move"

\* a result dictionary of _execute_single_action / execute_actions
ResultDict(ok, action, dest, err, warn) ==
    [success |-> ok, source |-> action.source, destination |-> dest,
     action_type |-> action.action_type, error |-> err, warning |-> warn]

\* FileExecutor._execute_single_action: the result dictionary, the
\* filesystem it leaves, the values of its local variables, the exception
\* it converted (exc) and the exception it let escape (raised)
ExecuteSingleAction(f, base, excluded, action, inventory) ==
    LET source_path == PathJoin(base, action.source)
        destination_path == PathJoin(base, action.destination)
        Out(ok, dest, kind, warn, g, coll, fin, mvd, exc) ==
            [result |-> ResultDict(ok, action, dest, kind, warn),
             fs |-> g, collided |-> coll, final |-> fin, moved |-> mvd,
             exc |-> exc, raised |-> "none"]
        Fail(kind, g, coll, fin, mvd, exc) ==
            Out(FALSE, action.destination, kind, FALSE, g, coll, fin, mvd, exc)
        \* an exception under the outer try: converted when the handler
        \* matches it, propagated to the caller otherwise
        Outer(exc, g, coll, fin, mvd) ==
            IF ExceptionMatches(exc)
            THEN Fail("op_exception", g, coll, fin, mvd, exc)
            ELSE [Fail("op_exception", g, coll, fin, mvd, exc)
                    EXCEPT !.raised = exc]
        \* an exception under one of the inner try blocks
        Inner(kind, exc, g, coll, fin, mvd) ==
            IF ExceptionMatches(exc)
            THEN Fail(kind, g, coll, fin, mvd, exc)
            ELSE Outer(exc, g, coll, fin, mvd)
        guard == IsPathSafeTry(base, excluded, destination_path)
    IN IF ~SupportedType(action.action_type)
       THEN Fail("unsupported", f, FALSE, <<>>, FALSE, "none")
       ELSE IF ~SourceExists(f, source_path, action, inventory)
       THEN Fail("source_missing", f, FALSE, <<>>, FALSE, "none")
       ELSE IF ~PathIsFile(f, source_path)
       THEN Fail("not_a_file", f, FALSE, <<>>, FALSE, "none")
       ELSE IF guard.raised # "none"
       THEN Outer(guard.raised, f, FALSE, <<>>, FALSE)
       ELSE IF ~guard.value
       THEN Fail("unsafe", f, FALSE, <<>>, FALSE, "none")
       ELSE
       LET md == PathMkdir(f, PathParent(destination_path))
       IN IF ~md.ok
          THEN Inner("mkdir_failed", "OSError", md.fs, FALSE, <<>>, FALSE)
          ELSE
          LET g == md.fs
              collided == PathExists(g, destination_path)
              u == ResolveCollision(g, destination_path)
          IN IF u.raised THEN Outer("ValueError", g, collided, <<>>, FALSE)
             ELSE
             LET mv == ShutilMove(g, source_path, u.path)
                 renamed == PathName(u.path) # StrPathName(action.destination)
             IN IF ~mv.ok
                THEN Inner("move_failed", "OSError", g, collided, u.path, FALSE)
                \* relative_to raises ValueError after the move
                ELSE IF ~IsRelativeTo(u.path, base)
                THEN Inner("move_failed", "ValueError", mv.fs, collided,
                           u.path, TRUE)
                \* `warning` is unbound unless the collision branch ran
                ELSE IF renamed /\ ~collided
                THEN Inner("move_failed", "NameError", mv.fs, collided,
                           u.path, TRUE)
                ELSE Out(TRUE, RelativeTo(u.path, base), "none", renamed,
                         mv.fs, collided, u.path, TRUE, "none")

\* the names bound in the namespace of file_executor.py
ModuleGlobals ==
    {"os", "shutil", "logging", "Path", "List", "Dict", "FileAction",
     "FileInfo", "config", "logger", "FileExecutor"}

\* log_progress(i + 1, len(actions), ...) at the end of the loop body:
\* "none" when the call returns, NameError when the name is not bound
LogProgress ==
    IF "log_progress" \in ModuleGlobals THEN "none" ELSE "NameError"

\* as FilesystemSeen, but every operation sees the filesystem of the start
FilesystemSeenAtStart(current, initial) == initial

\* the filesystem the checks of an operation are evaluated against: the
\* one the calls made so far have left
FilesystemSeen(current, initial) == current

\* as EnumerateNext, with a `break` after a failed action
EnumerateNextBreak(idx, n, result) == IF result.success THEN idx + 1 ELSE n

\* enumerate(actions): the index of the round after round idx
EnumerateNext(idx, n, result) == idx + 1

(***************************************************************************)
(* Inputs: filesystems, exclusion lists, actions and plans.                *)
(***************************************************************************)
MkFs(entries) ==
    [p \in {e[1] : e \in entries} |-> (CHOOSE e \in entries : e[1] = p)[2]]

\* present in every initial filesystem: the base directory /w holding
\* a.t, and the sibling directory /w2 holding another a.t
CoreEntries ==
    {<< <<>>, "dir">>, << <<W>>, "dir">>, << <<W, AT>>, "c1">>,
     << <<W2>>, "dir">>, << <<W2, AT>>, "c6">>}

BOptions == {{}, {<< <<W, B>>, "c2">>}}

SOptions ==
    {{},
     {<< <<W, S>>, "c3">>},
     {<< <<W, S>>, "dir">>},
     {<< <<W, S>>, "dir">>, << <<W, S, AT>>, "c4">>},
     {<< <<W, S>>, "dir">>, << <<W, S, AT>>, "c4">>, << <<W, S, AT1>>, "c5">>}}

InitialFilesystems ==
    {MkFs(CoreEntries \cup b \cup s) : b \in BOptions, s \in SOptions}

\* /w/s holds a.t and the alternates a_k.t for every k of `taken`
Crowded(taken) ==
    MkFs(CoreEntries \cup {<< <<W, S>>, "dir">>, << <<W, S, AT>>, "c4">>}
         \cup {<< Candidate(<<W, S, AT>>, k), ToString(k) >> : k \in taken})

CrowdedFilesystems ==
    {Crowded(1..(MaxCounter - 1)),
     Crowded(1..MaxCounter),
     Crowded(1..(MaxCounter + 1)),
     Crowded((1..(MaxCounter + 1)) \ {MaxCounter}),
     Crowded((1..MaxCounter) \ {7})}

\* config.excluded_paths: a system directory, optionally followed by
\* "~/e" (a directory below the base directory) or by "~z/x" (an entry
\* that cannot be expanded) and /w/e
ExcludedOptions ==
    {<< <<U>> >>, << <<U>>, <<Tilde, E>> >>, << <<U>>, <<TildeZ, X>>, <<W, E>> >>}

BaseDirs == {<<W>>}

FileAction(t, s, d) == [action_type |-> t, source |-> s, destination |-> d]

ActionUniverse ==
    {FileAction("move", <<AT>>, <<S, AT>>),
     FileAction("move", <<AT>>, <<AT>>),
     FileAction("move", <<B>>, <<S, AT>>),
     FileAction("move", <<B>>, <<S, X, B>>),
     FileAction("move", <<B>>, <<S, DotDot, B>>),
     FileAction("move", <<M>>, <<X, M>>),
     FileAction("move", <<S>>, <<X>>),
     FileAction("move", <<AT>>, <<DotDot, O, X>>),
     FileAction("move", <<AT>>, <<DotDot, W2, X>>),
     FileAction("move", <<AT>>, <<Slash, O, X>>),
     FileAction("move", <<AT>>, <<>>),
     FileAction("move", <<AT>>, <<E, X>>),
     FileAction("move", <<DotDot, W2, AT>>, <<X>>),
     FileAction("delete", <<AT>>, <<S, AT>>),
     FileAction("copy", <<M>>, <<X, M>>),
     FileAction("move", <<M>>, <<DotDot, O, X>>)}

\* the actions run against the crowded directory
CrowdedActions ==
    {FileAction("move", <<AT>>, <<S, AT>>),
     FileAction("move", <<S, AT>>, <<S, AT>>),
     FileAction("move", <<M>>, <<X, M>>),
     FileAction("move", <<S, AT1>>, <<X>>)}

RECURSIVE SeqsUpTo(_, _)
SeqsUpTo(set, n) ==
    IF n = 0 THEN {<<>>}
    ELSE LET shorter == SeqsUpTo(set, n - 1)
         IN shorter \cup {Append(q, a) : q \in {r \in shorter : Len(r) = n - 1},
                                         a \in set}

Plans == SeqsUpTo(ActionUniverse, MaxActions)

CrowdedPlans == SeqsUpTo(CrowdedActions, MaxActions)

\* the inventories handed to execute_actions (relative paths of the
\* scanned files): none, or one listing a.t and the missing file m
Inventories == {<<>>, << <<AT>>, <<M>> >>}

\* paths handed directly to _is_path_safe
SafeProbes ==
    {<<W, X>>, <<W>>, <<W, DotDot, X>>, <<W, DotDot, W2, X>>,
     <<W, DotDot, O, X>>, <<W, S, DotDot, AT>>, <<W, E, X>>, <<W, <<"e", "2">> >>,
     <<W2>>, <<>>, <<U, X>>, <<W, BadName>>}

\* paths handed directly to _generate_unique_filename
UniqueProbes ==
    {<<W, AT>>, <<W, S, AT>>, <<W, B>>, <<W, S>>, <<W, M>>, <<W>>,
     <<W, S, DotDot, AT>>}

(***************************************************************************)
(* State.                                                                  *)
(***************************************************************************)
VARIABLES
    fs,              \* the filesystem
    base_path,       \* FileExecutor.base_path
    excluded_paths,  \* config.excluded_paths
    pc,              \* "idle", "loop" (inside execute_actions), "done"
                     \* (it returned) or "raised" (it raised)
    actions,         \* execute_actions: the plan
    i,               \* execute_actions: the loop index
    results,         \* execute_actions: the result list
    success_count,   \* execute_actions: the success counter
    fs0,             \* history: the filesystem when execute_actions began
    trace,           \* history: one record per call of
                     \* _execute_single_action
    call,            \* the last direct call of a helper and its return value
    available_files, \* execute_actions: the inventory argument
    ui               \* the FreeUInterface object

vars == <<fs, base_path, excluded_paths, pc, actions, i, results,
          success_count, fs0, trace, call, available_files, ui>>

\* FreeUInterface.__init__
UiInit ==
    [scanner |-> [set |-> FALSE, base_path |-> <<>>],
     executor |-> [set |-> FALSE, base_path |-> <<>>],
     current_files |-> <<>>,
     current_actions |-> <<>>,
     scans |-> 0,          \* history: the number of successful scans
     plan_scan |-> 0,      \* history: the scan current_actions was made from
     plan_base |-> <<>>,   \* history: the directory it was made for
     plan_runs |-> 0,      \* history: the times current_actions was applied
     executions |-> 0,     \* history: the number of plans applied
     last |-> [handler |-> "none", outcome |-> "none",
               executor_base |-> <<>>, scanner_base |-> <<>>,
               plan_scan |-> 0, plan_base |-> <<>>, scans |-> 0]]

NoCall ==
    [fn |-> "none", arg |-> <<>>, pre |-> <<>>, ret |-> FALSE,
     raised |-> "none"]

InitWith(filesystems) ==
    /\ fs \in filesystems
    /\ base_path \in {PathResolve(b) : b \in BaseDirs}
    /\ excluded_paths \in ExcludedOptions
    /\ pc = "idle"
    /\ actions = <<>>
    /\ i = 0
    /\ results = <<>>
    /\ success_count = 0
    /\ fs0 = fs
    /\ trace = <<>>
    /\ call = NoCall
    /\ available_files = <<>>
    /\ ui = UiInit

Init == InitWith(InitialFilesystems)

InitCrowded == InitWith(CrowdedFilesystems)

(***************************************************************************)
(* Operations.                                                             *)
(***************************************************************************)
\* as IsPathSafeCall, but the call creates the parent directories of p
IsPathSafeCallMkdir ==
    /\ pc = "idle"
    /\ \E p \in SafeProbes :
          \E r \in {IsPathSafeTry(base_path, excluded_paths, p)} :
              /\ call' = [fn |-> "_is_path_safe", arg |-> p, pre |-> fs,
                          ret |-> r.value, raised |-> r.raised]
              /\ fs' = PathMkdir(fs, PathParent(PathResolve(p))).fs
    /\ UNCHANGED <<base_path, excluded_paths, pc, actions, i, results,
                   success_count, fs0, trace, available_files, ui>>

\* a direct call of _is_path_safe
IsPathSafeCall ==
    /\ pc = "idle"
    /\ \E p \in SafeProbes :
          \E r \in {IsPathSafeTry(base_path, excluded_paths, p)} :
              call' = [fn |-> "_is_path_safe", arg |-> p, pre |-> fs,
                       ret |-> r.value, raised |-> r.raised]
    /\ UNCHANGED <<fs, base_path, excluded_paths, pc, actions, i, results,
                   success_count, fs0, trace, available_files, ui>>

\* a direct call of _generate_unique_filename
GenerateUniqueFilenameCall ==
    /\ pc = "idle"
    /\ \E p \in UniqueProbes :
          call' = [fn |-> "_generate_unique_filename", arg |-> p, pre |-> fs,
                   ret |-> GenerateUniqueFilename(fs, p),
                   raised |-> "none"]
    /\ UNCHANGED <<fs, base_path, excluded_paths, pc, actions, i, results,
                   success_count, fs0, trace, available_files, ui>>

\* execute_actions is entered with one of the given plans and one of the
\* given inventories
ExecuteActionsCall(plans, inventories) ==
    /\ pc = "idle"
    /\ \E plan \in plans : actions' = plan
    /\ \E inventory \in inventories : available_files' = inventory
    /\ pc' = "loop"
    /\ i' = 0
    /\ results' = <<>>
    /\ success_count' = 0
    /\ fs0' = fs
    /\ trace' = <<>>
    /\ call' = NoCall
    /\ UNCHANGED <<fs, base_path, excluded_paths, ui>>

\* one round of the for-loop of execute_actions: the call of
\* _execute_single_action, the bookkeeping, log_progress and the handler
LoopIteration ==
    /\ pc = "loop"
    /\ i < Len(actions)
    /\ \E r \in {ExecuteSingleAction(FilesystemSeen(fs, fs0), base_path,
                                      excluded_paths, actions[i + 1],
                                      available_files)} :
       LET action == actions[i + 1]
           returned == r.raised = "none"
           appended == IF returned THEN Append(results, r.result) ELSE results
           exc == IF returned THEN LogProgress ELSE r.raised
       IN /\ fs' = r.fs
          /\ success_count' = IF returned /\ r.result.success
                              THEN success_count + 1
                              ELSE success_count
          /\ results' = IF exc # "none" /\ ExceptionMatches(exc)
                        THEN Append(appended,
                                    ResultDict(FALSE, action, action.destination,
                                               "exec_exception", FALSE))
                        ELSE appended
          /\ pc' = IF exc # "none" /\ ~ExceptionMatches(exc) THEN "raised"
                   ELSE pc
          /\ i' = EnumerateNext(i, Len(actions), r.result)
          /\ trace' = Append(trace,
                             [action |-> action, pre |-> fs, post |-> r.fs,
                              returned |-> returned, result |-> r.result,
                              collided |-> r.collided, final |-> r.final,
                              moved |-> r.moved, exc |-> r.exc,
                              loop_exc |-> exc])
    /\ UNCHANGED <<base_path, excluded_paths, actions, fs0, call,
                   available_files, ui>>

\* the for-loop is exhausted: execute_actions returns results
Return ==
    /\ pc = "loop"
    /\ i = Len(actions)
    /\ pc' = "done"
    /\ UNCHANGED <<fs, base_path, excluded_paths, actions, i, results,
                   success_count, fs0, trace, call, available_files, ui>>

Next ==
    \/ IsPathSafeCall
    \/ GenerateUniqueFilenameCall
    \/ ExecuteActionsCall(Plans, Inventories)
    \/ LoopIteration
    \/ Return

Spec == Init /\ [][Next]_vars

\* the same operations on the crowded directory
NextCrowded ==
    \/ IsPathSafeCall
    \/ GenerateUniqueFilenameCall
    \/ ExecuteActionsCall(CrowdedPlans, {<<>>})
    \/ LoopIteration
    \/ Return

SpecCrowded == InitCrowded /\ [][NextCrowded]_vars

(***************************************************************************)
(* DirectoryScanner.  An inventory entry (FileInfo) is represented by its  *)
(* path relative to the scanner's base directory.                          *)
(***************************************************************************)
\* names of the scanned trees: a hidden file, a hidden directory, a file
DotH == <<".", "h">>
DotD == <<".", "d">>
F == <<"f">>

\* the default of config.max_files
DefaultMaxFiles == 10000

\* DirectoryScanner.is_path_safe: the tests of the executor's guard, then
\* the hidden-name test on the last component of the path as given
ScannerIsPathSafe(base, excluded, path) ==
    LET r == IsPathSafeBody(base, excluded, path)
    IN IF r.raised # "none" THEN FALSE
       ELSE IF ~r.value THEN FALSE
       ELSE IF PathName(path) # <<>> /\ PathName(path)[1] = "." THEN FALSE
       ELSE TRUE

\* the names of the entries of directory d that are directories (dirs =
\* TRUE) or not (dirs = FALSE)
EntryNames(f, d, dirs) ==
    {q[Len(q)] : q \in {r \in DOMAIN f : /\ Len(r) = Len(d) + 1
                                          /\ SubSeq(r, 1, Len(d)) = d
                                          /\ (f[r] = "dir") = dirs}}

\* the orders in which the operating system may list a set of names
RECURSIVE Listings(_)
Listings(names) ==
    IF names = {} THEN {<<>>}
    ELSE UNION {{<<n>> \o rest : rest \in Listings(names \ {n})} : n \in names}

\* scan_directory(recursive=True): the loop over the files of one root
RECURSIVE ScanFiles(_, _, _, _)
ScanFiles(sc, root_path, files, st) ==
    IF files = <<>> THEN st
    ELSE LET file_path == Append(root_path, Head(files))
             found == IF ScannerIsPathSafe(sc.base_path, sc.excluded, file_path)
                      THEN Append(st.files, RelativeTo(file_path, sc.base_path))
                      ELSE st.files
         IN IF Len(found) >= sc.max_files
            THEN [files |-> found, stop |-> TRUE]
            ELSE ScanFiles(sc, root_path, Tail(files), [st EXCEPT !.files = found])

\* scan_directory(recursive=True): the rounds of the loop over os.walk for
\* root_path and the directories below it; the set of possible outcomes
RECURSIVE WalkRoot(_, _, _, _)
RECURSIVE WalkDirs(_, _, _, _, _)
WalkRoot(f, sc, root_path, st) ==
    IF st.stop THEN {st}
    ELSE IF ~ScannerIsPathSafe(sc.base_path, sc.excluded, root_path) THEN {st}
    ELSE LET scanned == {ScanFiles(sc, root_path, files, st) :
                            files \in Listings(EntryNames(f, root_path, FALSE))}
             checked == {[t EXCEPT !.stop = t.stop \/ Len(t.files) >= sc.max_files] :
                            t \in scanned}
         IN UNION {WalkDirs(f, sc, root_path, dirs, t) :
                      dirs \in Listings(EntryNames(f, root_path, TRUE)),
                      t \in checked}

WalkDirs(f, sc, root_path, dirs, st) ==
    IF dirs = <<>> THEN {st}
    ELSE UNION {WalkDirs(f, sc, root_path, Tail(dirs), t) :
                   t \in WalkRoot(f, sc, Append(root_path, Head(dirs)), st)}

\* scan_directory(recursive=False): the loop over base_path.iterdir()
RECURSIVE ScanItems(_, _, _, _)
ScanItems(f, sc, items, files) ==
    IF items = <<>> THEN files
    ELSE LET item == Append(sc.base_path, Head(items))
         IN IF ScannerIsPathSafe(sc.base_path, sc.excluded, item) /\ PathIsFile(f, item)
            THEN LET found == Append(files, RelativeTo(item, sc.base_path))
                 IN IF Len(found) >= sc.max_files THEN found
                    ELSE ScanItems(f, sc, Tail(items), found)
            ELSE ScanItems(f, sc, Tail(items), files)

\* DirectoryScanner(base).scan_directory(recursive) under config
\* (excluded_paths, max_files): the set of possible outcomes, one per
\* listing order of the operating system
ScanDirectory(f, base, excluded, recursive, max_files) ==
    LET sc == [base_path |-> PathResolve(base), excluded |-> excluded,
               max_files |-> max_files]
    IN IF ~PathExists(f, sc.base_path)
       THEN {[raised |-> "FileNotFoundError", files |-> <<>>]}
       ELSE IF ~PathIsDir(f, sc.base_path)
       THEN {[raised |-> "ValueError", files |-> <<>>]}
       ELSE IF recursive
       THEN {[raised |-> "none", files |-> t.files] :
                t \in WalkRoot(f, sc, sc.base_path,
                               [files |-> <<>>, stop |-> FALSE])}
       ELSE {[raised |-> "none", files |-> ScanItems(f, sc, items, <<>>)] :
                items \in Listings(EntryNames(f, sc.base_path, TRUE)
                                   \cup EntryNames(f, sc.base_path, FALSE))}

\* the trees scanned: /w with a file, a hidden file, a directory, a
\* directory the exclusion list may name and a hidden directory; an empty
\* /w; /w with two files; /w with files in a subdirectory only
ScanFilesystems ==
    {MkFs({<< <<>>, "dir">>, << <<W>>, "dir">>, << <<W, AT>>, "c1">>,
           << <<W, DotH>>, "c2">>, << <<W, S>>, "dir">>,
           << <<W, S, AT>>, "c3">>, << <<W, E>>, "dir">>,
           << <<W, E, F>>, "c4">>, << <<W, DotD>>, "dir">>,
           << <<W, DotD, F>>, "c5">>}),
     MkFs({<< <<>>, "dir">>, << <<W>>, "dir">>}),
     MkFs({<< <<>>, "dir">>, << <<W>>, "dir">>, << <<W, AT>>, "c1">>,
           << <<W, B>>, "c2">>}),
     MkFs({<< <<>>, "dir">>, << <<W>>, "dir">>, << <<W, S>>, "dir">>,
           << <<W, S, AT>>, "c3">>, << <<W, S, B>>, "c2">>})}

\* the directories scanned: /w, a hidden directory, a missing path, a file
ScanBases == {<<W>>, <<W, DotD>>, <<W, M>>, <<W, AT>>}

\* the values of config.max_files
MaxFilesOptions == {0, 1, 2, DefaultMaxFiles}

InitScan == InitWith(ScanFilesystems)

\* a direct call of DirectoryScanner(base).scan_directory(recursive)
ScanDirectoryCall ==
    /\ pc = "idle"
    /\ \E base \in ScanBases, recursive \in BOOLEAN, max_files \in MaxFilesOptions :
          \E out \in ScanDirectory(fs, base, excluded_paths, recursive, max_files) :
              call' = [fn |-> "scan_directory", arg |-> base, pre |-> fs,
                       ret |-> out.files, raised |-> out.raised,
                       recursive |-> recursive, max_files |-> max_files]
    /\ UNCHANGED <<fs, base_path, excluded_paths, pc, actions, i, results,
                   success_count, fs0, trace, available_files, ui>>

NextScan == ScanDirectoryCall

SpecScan == InitScan /\ [][NextScan]_vars

(***************************************************************************)
(* The summary of a finished plan.                                         *)
(***************************************************************************)
\* execute_organization_plan: sum(1 for r in results if r["success"])
UiSuccessCount(res) == Cardinality({k \in 1..Len(res) : res[k].success})

\* execute_organization_plan: sum(1 for r in results if not r["success"])
UiErrorCount(res) == Cardinality({k \in 1..Len(res) : ~res[k].success})

(***************************************************************************)
(* FreeUInterface: the handlers bound to the buttons of the interface.     *)
(***************************************************************************)
\* the greatest number of successful scans and of applied plans in a run
MaxScans == 2
MaxExecutions == 2

\* the trees under the interface: /w with a.t and /w2 with a.t, and the
\* same with a second file b in /w
UiFilesystems ==
    {MkFs(CoreEntries), MkFs(CoreEntries \cup {<< <<W, B>>, "c2">>})}

\* the text of the directory box: empty, or a path (two directories, a
\* regular file, a path that does not exist)
DirectoryInputs ==
    {[empty |-> TRUE, path |-> <<>>]}
    \cup {[empty |-> FALSE, path |-> p] :
             p \in {<<W>>, <<W2>>, <<W, AT>>, <<O>>}}

\* the actions a generated plan may hold: generate_organization_plan keeps
\* those whose type is in config.allowed_operations (['move'])
UiActions ==
    {FileAction("move", <<AT>>, <<S, AT>>),
     FileAction("move", <<AT>>, <<X>>),
     FileAction("move", <<B>>, <<X>>)}

UiPlans == SeqsUpTo(UiActions, MaxActions)

\* what MultiAIEngine() and generate_organization_plan can produce: an
\* exception, or a response with a plan
AiOutcomes ==
    {[raised |-> TRUE, actions |-> <<>>]}
    \cup {[raised |-> FALSE, actions |-> p] : p \in UiPlans}

\* FileExecutor.execute_actions: the rest of a round of the for-loop once
\* _execute_single_action has ended with outcome r
ExecuteActionsAppend(res, action, r) ==
    LET returned == r.raised = "none"
        appended == IF returned THEN Append(res, r.result) ELSE res
        exc == IF returned THEN LogProgress ELSE r.raised
    IN IF exc # "none" /\ ~ExceptionMatches(exc)
       THEN [fs |-> r.fs, results |-> appended, raised |-> exc]
       ELSE [fs |-> r.fs,
             results |-> IF exc # "none"
                         THEN Append(appended,
                                     ResultDict(FALSE, action,
                                                action.destination,
                                                "exec_exception", FALSE))
                         ELSE appended,
             raised |-> "none"]

\* FileExecutor.execute_actions: one round of the for-loop, from the state
\* st the rounds before it have left
ExecuteActionsRound(st, base, excluded, action, inventory) ==
    IF st.raised # "none" THEN st
    ELSE ExecuteActionsAppend(
             st.results, action,
             ExecuteSingleAction(st.fs, base, excluded, action, inventory))

\* FileExecutor.execute_actions as one call: the state after every round
ExecuteActions(f, base, excluded, plan, inventory) ==
    LET after[n \in 0..Len(plan)] ==
            IF n = 0 THEN [fs |-> f, results |-> <<>>, raised |-> "none"]
            ELSE ExecuteActionsRound(after[n - 1], base, excluded, plan[n],
                                     inventory)
    IN after[Len(plan)]

\* the record of the handler call that has just returned
UiLast(handler, outcome, u) ==
    [handler |-> handler, outcome |-> outcome,
     executor_base |-> u.executor.base_path,
     scanner_base |-> u.scanner.base_path,
     plan_scan |-> u.plan_scan, plan_base |-> u.plan_base,
     scans |-> u.scans]

\* FreeUInterface.scan_directory(directory_path)
UiScanDirectory ==
    /\ pc = "idle"
    /\ \E input \in DirectoryInputs :
          IF input.empty
          THEN /\ ui' = [ui EXCEPT !.last = UiLast("scan_directory",
                                                   "no_directory", ui)]
          ELSE IF ~PathExists(fs, input.path)
          THEN /\ ui' = [ui EXCEPT !.last = UiLast("scan_directory",
                                                   "missing", ui)]
          ELSE IF ~PathIsDir(fs, input.path)
          THEN /\ ui' = [ui EXCEPT !.last = UiLast("scan_directory",
                                                   "not_a_directory", ui)]
          ELSE /\ ui.scans < MaxScans
               /\ \E s \in ScanDirectory(fs, input.path, excluded_paths, TRUE,
                                         DefaultMaxFiles) :
                     \E u \in {[ui EXCEPT
                                  !.scanner = [set |-> TRUE,
                                               base_path |->
                                                   PathResolve(input.path)],
                                  !.current_files =
                                      IF s.raised = "none" THEN s.files ELSE @,
                                  !.scans = @ + 1]} :
                        ui' = [u EXCEPT !.last =
                                  UiLast("scan_directory",
                                         IF s.raised = "none" THEN "scanned"
                                         ELSE "failed", u)]
    /\ UNCHANGED <<fs, base_path, excluded_paths, pc, actions, i, results,
                   success_count, fs0, trace, call, available_files>>

\* FreeUInterface.auto_organize()
UiAutoOrganize ==
    /\ pc = "idle"
    /\ IF ui.current_files = <<>>
       THEN ui' = [ui EXCEPT !.last = UiLast("auto_organize", "scan_first", ui)]
       ELSE \E ai \in AiOutcomes :
               IF ai.raised
               THEN ui' = [ui EXCEPT !.last = UiLast("auto_organize",
                                                     "failed", ui)]
               ELSE \E u \in {[ui EXCEPT !.current_actions = ai.actions,
                                         !.plan_scan = ui.scans,
                                         !.plan_base = ui.scanner.base_path,
                                         !.plan_runs = 0]} :
                       ui' = [u EXCEPT !.last =
                                 UiLast("auto_organize",
                                        IF ai.actions = <<>> THEN "no_change"
                                        ELSE "planned", u)]
    /\ UNCHANGED <<fs, base_path, excluded_paths, pc, actions, i, results,
                   success_count, fs0, trace, call, available_files>>

\* as ActionsAfterExecute, but the plan stays in place once it has run
ActionsAfterExecuteKept(current_actions) == current_actions

\* execute_organization_plan, after the report: self.current_actions = []
ActionsAfterExecute(current_actions) == <<>>

\* FreeUInterface.execute_organization_plan()
UiExecuteOrganizationPlan ==
    /\ pc = "idle"
    /\ IF ui.current_actions = <<>>
       THEN /\ ui' = [ui EXCEPT !.last = UiLast("execute_organization_plan",
                                                "nothing_to_execute", ui)]
            /\ fs' = fs
       ELSE IF ~ui.scanner.set
       THEN /\ ui' = [ui EXCEPT !.last = UiLast("execute_organization_plan",
                                                "scan_first", ui)]
            /\ fs' = fs
       ELSE /\ ui.executions < MaxExecutions
            /\ \E executor \in {IF ~ui.executor.set
                                THEN [set |-> TRUE,
                                      base_path |->
                                          PathResolve(ui.scanner.base_path)]
                                ELSE ui.executor} :
               \E run \in {ExecuteActions(fs, executor.base_path,
                                          excluded_paths, ui.current_actions,
                                          ui.current_files)} :
               \E u \in {[ui EXCEPT !.executor = executor,
                                    !.executions = @ + 1,
                                    !.plan_runs = @ + 1]} :
                  /\ fs' = run.fs
                  /\ ui' = IF run.raised # "none"
                           THEN [u EXCEPT !.last =
                                    UiLast("execute_organization_plan",
                                           "failed", u)]
                           ELSE [u EXCEPT
                                    !.current_actions = ActionsAfterExecute(@),
                                    !.last =
                                        UiLast("execute_organization_plan",
                                               "report", u)]
    /\ UNCHANGED <<base_path, excluded_paths, pc, actions, i, results,
                   success_count, fs0, trace, call, available_files>>

InitUi == InitWith(UiFilesystems)

NextUi ==
    \/ UiScanDirectory
    \/ UiAutoOrganize
    \/ UiExecuteOrganizationPlan

SpecUi == InitUi /\ [][NextUi]_vars

(***************************************************************************)
(* Vocabulary of the properties.                                           *)
(***************************************************************************)
\* the regular files of a filesystem
FilesOf(f) == {p \in DOMAIN f : f[p] # "dir"}

\* the canonical location of a path on filesystem f
Location(f, p) == Walk(f, p).path

\* the actions passed to _execute_single_action so far, in call order
Attempted == [k \in 1..Len(trace) |-> trace[k].action]

\* the absolute source and destination of the k-th call
SourcePath(k) == PathJoin(base_path, trace[k].action.source)
DestinationPath(k) == PathJoin(base_path, trace[k].action.destination)

(***************************************************************************)
(* Properties of execute_actions.                                          *)
(***************************************************************************)
\* C1: execute_actions returns exactly one result per input action:
\* len(results) = len(actions), for the empty plan too.
C1_OneResultPerAction ==
    pc = "done" => Len(results) = Len(actions)

\* C2: the k-th element of the returned list is the outcome of the k-th
\* action: it carries that action's source and action type and is the
\* result _execute_single_action produced for it.
C2_ResultsInInputOrder ==
    pc = "done" =>
        \A k \in 1..Len(actions) :
            /\ k <= Len(results)
            /\ results[k].source = actions[k].source
            /\ results[k].action_type = actions[k].action_type
            /\ results[k] = trace[k].result

\* C3: every action of the plan is passed to _execute_single_action
\* exactly once and in input order, whether or not earlier actions
\* failed: each round of the loop attempts the next action and no round
\* ends the loop early, and execute_actions returns after the last one.
C3_EveryActionAttempted ==
    /\ [](pc \in {"loop", "done", "raised"} =>
            /\ i <= Len(actions)
            /\ Attempted = SubSeq(actions, 1, i))
    /\ [](pc = "done" => Attempted = actions)
    /\ [][pc = "loop" =>
            \/ /\ pc' = "loop"
               /\ i < Len(actions)
               /\ i' = i + 1
               /\ Len(trace') = Len(trace) + 1
            \/ /\ pc' = "done"
               /\ i = Len(actions)]_vars

\* C3 witness: a failed action followed by the attempt of the next one
C3_Witness ==
    /\ pc = "done"
    /\ Len(trace) = 2
    /\ ~trace[1].result.success
    /\ trace[2].action = actions[2]

(***************************************************************************)
(* Properties of _is_path_safe.                                            *)
(***************************************************************************)
\* C4: no-escape invariant: _is_path_safe returns false for every path
\* whose canonical form is neither the base directory nor a descendant of
\* it, a path in a sibling directory whose name begins with the base
\* directory's name included.
C4_NoEscape ==
    (call.fn = "_is_path_safe" /\ ~IsDescendantOrSelf(call.arg, base_path))
        => call.ret = FALSE

(***************************************************************************)
(* Properties of whole plans.                                              *)
(***************************************************************************)
\* C5: no data loss and no silent overwrite: every regular file that
\* existed when execute_actions began still exists with its content at
\* exactly one path, its original path or the final destination of an
\* operation that moved it, and no other file content has appeared.
C5_NoDataLoss ==
    pc \in {"loop", "done"} =>
        /\ \A p \in FilesOf(fs0) :
              \E q \in FilesOf(fs) :
                  /\ fs[q] = fs0[p]
                  /\ \A q2 \in FilesOf(fs) : fs[q2] = fs0[p] => q2 = q
                  /\ \/ q = p
                     \/ \E k \in 1..Len(trace) :
                            /\ trace[k].moved
                            /\ Location(trace[k].post, trace[k].final) = q
        /\ \A q \in FilesOf(fs) : \E p \in FilesOf(fs0) : fs0[p] = fs[q]

\* C5 witness: a plan has run in which a move met an occupied destination
C5_Witness ==
    /\ pc = "done"
    /\ \E k \in 1..Len(trace) :
          /\ trace[k].collided
          /\ trace[k].result.success
          /\ PathIsFile(trace[k].pre, DestinationPath(k))

\* C6: execute_actions never propagates an exception: an exception raised
\* while one operation is processed, the name-space-exhausted error of
\* _generate_unique_filename for one, becomes a failure result of that
\* operation with an error message, and the remaining operations are
\* still processed.
C6_NoExceptionEscapes ==
    /\ pc # "raised"
    /\ \A k \in 1..Len(trace) :
          /\ trace[k].exc # "none" =>
                /\ trace[k].returned
                /\ ~trace[k].result.success
                /\ trace[k].result.error # "none"
          /\ (trace[k].exc # "none" \/ trace[k].loop_exc # "none") =>
                \E j \in 1..Len(results) :
                    /\ ~results[j].success
                    /\ results[j].error # "none"
                    /\ results[j].source = trace[k].action.source
                    /\ results[j].destination = trace[k].action.destination
    /\ pc = "done" => Len(trace) = Len(actions)

\* C6 witness: the name space of the first destination was exhausted and
\* the second operation of the plan was processed all the same
C6_Witness ==
    /\ pc = "done"
    /\ Len(trace) = 2
    /\ trace[1].collided
    /\ trace[1].exc = "ValueError"
    /\ trace[1].result.error = "op_exception"

(***************************************************************************)
(* Properties of one move.  A destination written with ".." through a      *)
(* directory that does not exist (yet) is absent for the operating system  *)
(* while its canonical form may exist: C7 speaks of destinations whose     *)
(* canonical form is absent, C8 of destinations the operating system       *)
(* finds.                                                                  *)
(***************************************************************************)
\* the k-th call is a move of an existing regular file to a destination
\* the guard accepts
MoveOfFile(k) ==
    /\ trace[k].action.action_type = "move"
    /\ PathIsFile(trace[k].pre, SourcePath(k))
    /\ IsPathSafe(base_path, excluded_paths, DestinationPath(k))

\* the destination of the k-th call does not exist
DestinationAbsent(k) == PathResolve(DestinationPath(k)) \notin DOMAIN trace[k].pre

\* a component of the destination's parent path is a regular file
Obstructed(k) ==
    \E n \in 1..(Len(DestinationPath(k)) - 1) :
        PathIsFile(trace[k].pre, SubSeq(DestinationPath(k), 1, n))

\* the k-th call succeeded, every ancestor of the destination is a
\* directory, the source's content is at the destination and the source
\* path is gone
MovedToDestination(k) ==
    LET d == PathResolve(DestinationPath(k))
        src == Location(trace[k].pre, SourcePath(k))
    IN /\ trace[k].result.success
       /\ \A n \in 0..(Len(d) - 1) :
             /\ SubSeq(d, 1, n) \in DOMAIN trace[k].post
             /\ trace[k].post[SubSeq(d, 1, n)] = "dir"
       /\ d \in DOMAIN trace[k].post
       /\ trace[k].post[d] = trace[k].pre[src]
       /\ src \notin DOMAIN trace[k].post

DestinationExists(k) == PathExists(trace[k].pre, DestinationPath(k))

\* one of the alternates stem_1 .. stem_999 of the destination is free
AlternateFree(k) ==
    \E j \in 1..999 : ~PathExists(trace[k].pre, Candidate(DestinationPath(k), j))

\* the k-th call succeeded under an alternate name of the destination's
\* directory, with a warning, and left the file at the destination alone
MovedToAlternate(k) ==
    LET d == Location(trace[k].pre, DestinationPath(k))
        src == Location(trace[k].pre, SourcePath(k))
        final == PathJoin(base_path, trace[k].result.destination)
    IN /\ trace[k].result.success
       /\ trace[k].result.warning
       /\ final # DestinationPath(k)
       /\ \E j \in 1..999 : final = Candidate(DestinationPath(k), j)
       /\ ~PathExists(trace[k].pre, final)
       /\ PathIsFile(trace[k].post, final)
       /\ trace[k].post[Location(trace[k].post, final)] = trace[k].pre[src]
       /\ d \in DOMAIN trace[k].post
       /\ trace[k].post[d] = trace[k].pre[d]

\* a successful result carries a warning exactly when its destination is
\* not the requested one
WarningIffRenamed ==
    \A k \in 1..Len(trace) :
        trace[k].result.success =>
            (trace[k].result.warning <=>
                PathJoin(base_path, trace[k].result.destination)
                    # DestinationPath(k))

C9_SmallestFreeAlternate ==
    call.fn = "_generate_unique_filename" =>
        LET f == call.pre
            p == call.arg
            free == {k \in 1..MaxCounter : ~PathExists(f, Candidate(p, k))}
        IN /\ ~PathExists(f, p) => (~call.ret.raised /\ call.ret.path = p)
           /\ (PathExists(f, p) /\ free # {}) =>
                 /\ ~call.ret.raised
                 /\ call.ret.path # p
                 /\ PathParent(call.ret.path) = PathParent(p)
                 /\ \E k \in free :
                       /\ call.ret.path = Candidate(p, k)
                       /\ \A j \in free : k <= j
           /\ ~call.ret.raised => ~PathExists(f, call.ret.path)

\* C9 witness: p and its first alternate exist, the second is returned
C9_Witness ==
    /\ call.fn = "_generate_unique_filename"
    /\ PathExists(call.pre, call.arg)
    /\ PathExists(call.pre, Candidate(call.arg, 1))
    /\ ~call.ret.raised
    /\ call.ret.path = Candidate(call.arg, 2)

\* C10: _generate_unique_filename tests at most 999 candidates; it raises
\* the name-space-exhausted error iff p and stem_1 .. stem_999 all exist,
\* returns stem_999 when that is the first free candidate, and never
\* returns stem_1000.
C10_BoundedSearch ==
    call.fn = "_generate_unique_filename" =>
        LET f == call.pre
            p == call.arg
        IN /\ call.ret.tested <= 999
           /\ call.ret.raised <=>
                 /\ PathExists(f, p)
                 /\ \A k \in 1..999 : PathExists(f, Candidate(p, k))
           /\ (/\ PathExists(f, p)
               /\ \A k \in 1..998 : PathExists(f, Candidate(p, k))
               /\ ~PathExists(f, Candidate(p, 999)))
                 => (~call.ret.raised /\ call.ret.path = Candidate(p, 999))
           /\ call.ret.path # Candidate(p, 1000)

\* C10 witness: the search gave up after its 999th candidate
C10_Witness ==
    /\ call.fn = "_generate_unique_filename"
    /\ call.ret.raised
    /\ call.ret.tested = 999

(***************************************************************************)
(* Properties of the checks _execute_single_action makes before it moves.  *)
(***************************************************************************)
\* C11: for every action whose action_type is not "move" (delete, copy),
\* whether or not its source exists, _execute_single_action returns a
\* failure result with the unsupported-operation error and leaves the
\* filesystem unchanged.
C11_UnsupportedRejected ==
    \A k \in 1..Len(trace) :
        trace[k].action.action_type # "move" =>
            /\ trace[k].returned
            /\ ~trace[k].result.success
            /\ trace[k].result.error = "unsupported"
            /\ trace[k].post = trace[k].pre

\* C11 witness: a copy of a missing source was refused as unsupported
C11_Witness ==
    \E k \in 1..Len(trace) :
        /\ trace[k].action.action_type = "copy"
        /\ ~PathExists(trace[k].pre, SourcePath(k))
        /\ trace[k].result.error = "unsupported"

\* the source of the k-th call, a move, does not exist
SourceMissing(k) ==
    /\ trace[k].action.action_type = "move"
    /\ ~PathExists(trace[k].pre, SourcePath(k))

\* the source of the k-th call, a move, is a directory
SourceIsDirectory(k) ==
    /\ trace[k].action.action_type = "move"
    /\ PathExists(trace[k].pre, SourcePath(k))
    /\ trace[k].pre[Location(trace[k].pre, SourcePath(k))] = "dir"

\* C12: a move whose source does not exist fails with the source-missing
\* error, a move whose source is a directory fails with the
\* source-not-a-file error; both leave the filesystem unchanged, and every
\* directory that existed when the plan began is still in place.
C12_SourceChecked ==
    /\ \A k \in 1..Len(trace) :
          SourceMissing(k) =>
              /\ ~trace[k].result.success
              /\ trace[k].result.error = "source_missing"
              /\ trace[k].post = trace[k].pre
    /\ \A k \in 1..Len(trace) :
          SourceIsDirectory(k) =>
              /\ ~trace[k].result.success
              /\ trace[k].result.error = "not_a_file"
              /\ trace[k].post = trace[k].pre
    /\ \A d \in DOMAIN fs0 :
          fs0[d] = "dir" => (d \in DOMAIN fs /\ fs[d] = "dir")

\* C12 witness: a move of a directory was refused
C12_Witness ==
    \E k \in 1..Len(trace) :
        SourceIsDirectory(k) /\ trace[k].result.error = "not_a_file"

\* an exclusion entry that cannot be expanded or canonicalized
EntryFails(entry) ==
    \/ ExpandUser(entry).raised # "none"
    \/ ResolveRaises(ExpandUser(entry).path)

\* the tests of lines 166-178 reject the destination of the k-th call
RejectedDestination(k) ==
    LET d == DestinationPath(k)
    IN \/ ResolveRaises(d)
       \/ ~StartsWith(PathStr(PathResolve(d)), PathStr(base_path))
       \/ \E n \in 1..Len(excluded_paths) :
             \/ EntryFails(excluded_paths[n])
             \/ StartsWith(PathStr(PathResolve(d)),
                           PathStr(PathResolve(ExpandUser(excluded_paths[n]).path)))

\* C13: a move whose source is an existing regular file and whose
\* destination the path guard rejects yields a failure with the
\* unsafe-destination error; the source stays in place and no directory
\* or file is created.
C13_UnsafeRejected ==
    \A k \in 1..Len(trace) :
        (/\ trace[k].action.action_type = "move"
         /\ PathIsFile(trace[k].pre, SourcePath(k))
         /\ RejectedDestination(k))
            => /\ trace[k].returned
               /\ ~trace[k].result.success
               /\ trace[k].result.error = "unsafe"
               /\ trace[k].post = trace[k].pre

\* C13 witness: a move to a destination outside the base directory was
\* refused as unsafe
C13_Witness ==
    \E k \in 1..Len(trace) :
        /\ PathIsFile(trace[k].pre, SourcePath(k))
        /\ ~IsDescendantOrSelf(DestinationPath(k), base_path)
        /\ RejectedDestination(k)
        /\ trace[k].result.error = "unsafe"

(***************************************************************************)
(* Further properties of _is_path_safe.                                    *)
(***************************************************************************)
\* the canonical form of p lies under an exclusion entry, expanded and
\* canonicalized
UnderExclusion(p) ==
    \E n \in 1..Len(excluded_paths) :
        /\ ~EntryFails(excluded_paths[n])
        /\ IsDescendantOrSelf(p, ExpandUser(excluded_paths[n]).path)

\* C14: _is_path_safe returns false for every path whose canonical form
\* lies under an entry of the exclusion list (expanded and canonicalized),
\* also when the path is inside the base directory; no move to such a
\* destination succeeds.
C14_ExcludedRejected ==
    /\ (/\ call.fn = "_is_path_safe"
        /\ ~ResolveRaises(call.arg)
        /\ UnderExclusion(call.arg))
           => (call.raised = "none" /\ call.ret = FALSE)
    /\ \A k \in 1..Len(trace) :
          UnderExclusion(DestinationPath(k)) => ~trace[k].result.success

\* C14 witness: a path inside the base directory and under the entry
\* "~/e" was refused
C14_Witness ==
    /\ call.fn = "_is_path_safe"
    /\ IsDescendantOrSelf(call.arg, base_path)
    /\ UnderExclusion(call.arg)
    /\ \E n \in 1..Len(excluded_paths) : excluded_paths[n][1] = Tilde
    /\ call.ret = FALSE

\* C15: _is_path_safe returns true for every path whose canonical form is
\* inside the base directory and under no exclusion entry, also when an
\* exclusion entry is a string prefix of the path without being one of
\* its ancestors (exclusion lists whose entries all resolve).
C15_AcceptsInsideBase ==
    (/\ call.fn = "_is_path_safe"
     /\ ~ResolveRaises(call.arg)
     /\ \A n \in 1..Len(excluded_paths) : ~EntryFails(excluded_paths[n])
     /\ IsDescendantOrSelf(call.arg, base_path)
     /\ ~UnderExclusion(call.arg))
        => call.ret = TRUE

\* resolving the candidate path or an exclusion entry fails
ResolutionFails(p) ==
    \/ ResolveRaises(p)
    \/ \E n \in 1..Len(excluded_paths) : EntryFails(excluded_paths[n])

\* C16: _is_path_safe never raises; when resolving the candidate path or
\* an exclusion entry fails, it returns false.
C16_GuardNeverRaises ==
    call.fn = "_is_path_safe" =>
        /\ call.raised = "none"
        /\ ResolutionFails(call.arg) => call.ret = FALSE

\* C16 witness: a path inside the base directory was refused because an
\* exclusion entry could not be expanded
C16_Witness ==
    /\ call.fn = "_is_path_safe"
    /\ ~ResolveRaises(call.arg)
    /\ IsDescendantOrSelf(call.arg, base_path)
    /\ \E n \in 1..Len(excluded_paths) : EntryFails(excluded_paths[n])
    /\ call.raised = "none"
    /\ call.ret = FALSE

\* the k-th call reached the guard: its action is a move of a regular file
ReachedGuard(k) ==
    /\ trace[k].action.action_type = "move"
    /\ PathIsFile(trace[k].pre, SourcePath(k))

\* C17: _is_path_safe is pure: a call changes neither the filesystem nor
\* the executor's base path nor the exclusion list, and two evaluations
\* for the same path, base directory and exclusion list give the same
\* verdict, whatever the operations in between did.
C17_GuardIsPure ==
    /\ [][call'.fn = "_is_path_safe" =>
             /\ fs' = fs
             /\ base_path' = base_path
             /\ excluded_paths' = excluded_paths
             /\ call'.pre = fs]_vars
    /\ [](\A j, k \in 1..Len(trace) :
             (/\ ReachedGuard(j) /\ ReachedGuard(k)
              /\ DestinationPath(j) = DestinationPath(k))
                 => ((trace[j].result.error = "unsafe")
                        <=> (trace[k].result.error = "unsafe")))
    /\ [](\A k \in 1..Len(trace) :
             (ReachedGuard(k) /\ trace[k].result.error = "unsafe")
                 => trace[k].post = trace[k].pre)

\* C17 witness: a direct call accepted a path and the filesystem is the
\* one the call started on
C17_Witness ==
    /\ call.fn = "_is_path_safe"
    /\ call.ret = TRUE
    /\ call.pre = fs
    /\ call.arg = <<W, X>>

(***************************************************************************)
(* Properties of the order of the operations of a plan.                    *)
(***************************************************************************)
\* the j-th call was written at its requested destination and the later
\* k-th call requests the same destination for another regular file,
\* while the file is there and an alternate name is free
SameDestination(j, k) ==
    /\ j < k
    /\ PathResolve(DestinationPath(j)) = PathResolve(DestinationPath(k))
    /\ trace[j].result.success
    /\ PathJoin(base_path, trace[j].result.destination) = DestinationPath(j)
    /\ MoveOfFile(k)
    /\ PathIsFile(trace[k].pre, DestinationPath(k))
    /\ Location(trace[k].pre, DestinationPath(k))
           # Location(trace[k].pre, SourcePath(k))
    /\ AlternateFree(k)

\* the content the k-th call found at its source
SourceContent(k) == trace[k].pre[Location(trace[k].pre, SourcePath(k))]

\* the source of the k-th call was moved away by the earlier j-th call
MovedAwayBy(j, k) ==
    /\ j < k
    /\ trace[j].moved
    /\ trace[k].action.action_type = "move"
    /\ Location(trace[j].pre, SourcePath(j)) = PathResolve(SourcePath(k))
    /\ ~PathExists(trace[k].pre, SourcePath(k))

\* C18: each operation of a plan is checked against the filesystem left
\* by the earlier ones: of two operations that request the same
\* destination the first is written there and the second under a
\* collision-resolved name, both contents surviving; an operation whose
\* source an earlier operation moved away fails with source-missing.
C18_SequentialEffects ==
    /\ \A k \in 1..Len(trace) :
          trace[k].pre = IF k = 1 THEN fs0 ELSE trace[k - 1].post
    /\ \A j, k \in 1..Len(trace) :
          SameDestination(j, k) =>
              /\ MovedToAlternate(k)
              /\ \E q \in FilesOf(trace[k].post) :
                    trace[k].post[q] = SourceContent(j)
              /\ \E q \in FilesOf(trace[k].post) :
                    trace[k].post[q] = SourceContent(k)
    /\ \A j, k \in 1..Len(trace) :
          MovedAwayBy(j, k) =>
              /\ ~trace[k].result.success
              /\ trace[k].result.error = "source_missing"
              /\ trace[k].post = trace[k].pre

\* C18 witness: the second of two moves to one free destination went to
\* the first alternate
C18_Witness ==
    \E j, k \in 1..Len(trace) :
        /\ SameDestination(j, k)
        /\ ~PathExists(trace[j].pre, DestinationPath(j))
        /\ trace[k].final = Candidate(DestinationPath(k), 1)
        /\ trace[k].result.success

\* C19: after execute_actions the success count equals the number of
\* results with success = true, the failure count the number of results
\* with success = false, and the two sum to the number of operations of
\* the plan.
C19_SummaryConsistent ==
    pc = "done" =>
        /\ success_count = Cardinality({k \in 1..Len(results) : results[k].success})
        /\ UiSuccessCount(results) = success_count
        /\ UiErrorCount(results) = Len(results) - success_count
        /\ UiSuccessCount(results) + UiErrorCount(results) = Len(actions)

\* C20: the executor reads and writes only under its base directory: the
\* canonical source of every operation that succeeds is inside the base
\* directory, and every file that was outside the base directory when the
\* plan began is still at its path with its content.
C20_SourceInsideBase ==
    /\ \A k \in 1..Len(trace) :
          trace[k].result.success => IsDescendantOrSelf(SourcePath(k), base_path)
    /\ \A q \in FilesOf(fs0) :
          ~IsDescendantOrSelf(q, base_path) => (q \in DOMAIN fs /\ fs[q] = fs0[q])

(***************************************************************************)
(* Properties of the inventory and of the reported destination.            *)
(***************************************************************************)
\* the source of the k-th call is listed in the inventory
Listed(k) ==
    \E n \in 1..Len(available_files) :
        available_files[n] = trace[k].action.source

\* C21: the executor re-checks the filesystem instead of trusting the
\* inventory: every operation has the same result and leaves the same
\* filesystem for every inventory; an operation whose source is listed but
\* not on disk fails with source-missing; neither the inventory nor the
\* action list is modified while the plan runs.
C21_InventoryIgnored ==
    /\ [](\A k \in 1..Len(trace) : \A inventory \in Inventories :
             LET r == ExecuteSingleAction(trace[k].pre, base_path,
                                          excluded_paths, trace[k].action,
                                          inventory)
             IN r.result = trace[k].result /\ r.fs = trace[k].post)
    /\ [](\A k \in 1..Len(trace) :
             (/\ trace[k].action.action_type = "move"
              /\ Listed(k)
              /\ ~PathExists(trace[k].pre, SourcePath(k)))
                 => trace[k].result.error = "source_missing")
    /\ [][pc = "loop" => (available_files' = available_files
                          /\ actions' = actions)]_vars

\* C21 witness: a source listed in the inventory and missing on disk was
\* reported missing
C21_Witness ==
    \E k \in 1..Len(trace) :
        /\ trace[k].action.action_type = "move"
        /\ Listed(k)
        /\ ~PathExists(trace[k].pre, SourcePath(k))
        /\ trace[k].result.error = "source_missing"

\* C22: every result with success = true reports the final (possibly
\* renamed) destination relative to the base directory: right after the
\* operation a regular file with the source's content exists at
\* base/destination and the source path no longer exists.
C22_ReportedDestination ==
    \A k \in 1..Len(trace) :
        trace[k].result.success =>
            LET reported == PathJoin(base_path, trace[k].result.destination)
            IN /\ trace[k].result.destination # <<>>
               /\ trace[k].result.destination[1] # Slash
               /\ reported = trace[k].final
               /\ PathIsFile(trace[k].post, reported)
               /\ trace[k].post[Location(trace[k].post, reported)]
                      = SourceContent(k)
               /\ ~PathExists(trace[k].post, SourcePath(k))

\* C22 witness: a renamed destination was reported and holds the content
C22_Witness ==
    \E k \in 1..Len(trace) :
        /\ trace[k].result.success
        /\ trace[k].result.warning
        /\ PathJoin(base_path, trace[k].result.destination) # DestinationPath(k)
        /\ PathIsFile(trace[k].post,
                      PathJoin(base_path, trace[k].result.destination))

(***************************************************************************)
(* Properties of DirectoryScanner.scan_directory.                          *)
(***************************************************************************)
\* C23: scan_directory enforces the maximum entry count: for every tree,
\* both recursion modes and every value of max_files the returned list
\* has at most max_files entries.
C23_EntryCap ==
    (call.fn = "scan_directory" /\ call.raised = "none")
        => Len(call.ret) <= call.max_files

\* the set of the entries of a returned list
EntriesOf(files) == {files[n] : n \in 1..Len(files)}

\* a non-hidden subdirectory of the base directory holds a non-hidden file
SubdirectoryWithFile(f, base) ==
    \E d \in EntryNames(f, base, TRUE) :
        /\ d[1] # "."
        /\ \E n \in EntryNames(f, Append(base, d), FALSE) : n[1] # "."

\* C24: when the entry cap is not reached, every file returned by
\* scan_directory(recursive=False) is also returned by
\* scan_directory(recursive=True), and the recursive scan returns strictly
\* more entries whenever a non-hidden subdirectory holds a non-hidden
\* file.
C24_RecursiveRefines ==
    (/\ call.fn = "scan_directory"
     /\ call.raised = "none"
     /\ call.recursive
     /\ Len(call.ret) < call.max_files)
        => \A flat \in ScanDirectory(call.pre, call.arg, excluded_paths,
                                     FALSE, call.max_files) :
              Len(flat.files) < call.max_files =>
                  /\ EntriesOf(flat.files) \subseteq EntriesOf(call.ret)
                  /\ SubdirectoryWithFile(call.pre, PathResolve(call.arg))
                        => Len(call.ret) > Len(flat.files)

(***************************************************************************)
(* Properties of the order and the effects of the checks.                  *)
(***************************************************************************)
\* C25: the checks of an operation are applied in the order action type,
\* source existence, source is a regular file, destination safety,
\* directory creation, collision, move, and the error reported is that of
\* the first failing check: a missing source with an unsafe destination
\* is reported as source-missing, an unsupported type with a missing
\* source as unsupported.
C25_CheckOrder ==
    \A k \in 1..Len(trace) :
        /\ trace[k].action.action_type # "move"
              => trace[k].result.error = "unsupported"
        /\ SourceMissing(k) => trace[k].result.error = "source_missing"
        /\ SourceIsDirectory(k) => trace[k].result.error = "not_a_file"
        /\ (ReachedGuard(k) /\ RejectedDestination(k))
              => trace[k].result.error = "unsafe"
        /\ (ReachedGuard(k) /\ ~RejectedDestination(k) /\ Obstructed(k))
              => trace[k].result.error = "mkdir_failed"
        /\ (trace[k].collided \/ trace[k].moved)
              => /\ ReachedGuard(k)
                 /\ ~RejectedDestination(k)
                 /\ PathIsDir(trace[k].post, PathParent(DestinationPath(k)))
        /\ trace[k].result.error = "op_exception" => ~trace[k].moved

\* C25 witness: a move with a missing source and an unsafe destination
\* was reported as source-missing
C25_Witness ==
    \E k \in 1..Len(trace) :
        /\ SourceMissing(k)
        /\ RejectedDestination(k)
        /\ ~IsDescendantOrSelf(DestinationPath(k), base_path)
        /\ trace[k].result.error = "source_missing"

\* C26: when a component of the destination's parent path exists as a
\* regular file, the operation fails with the directory-creation error,
\* the source stays in place and the obstructing file is unchanged.
C26_ObstructedParent ==
    \A k \in 1..Len(trace) :
        (/\ ReachedGuard(k)
         /\ ~RejectedDestination(k)
         /\ Obstructed(k))
            => /\ trace[k].returned
               /\ ~trace[k].result.success
               /\ trace[k].result.error = "mkdir_failed"
               /\ trace[k].post = trace[k].pre

\* C26 witness: a move below a regular file failed at directory creation
C26_Witness ==
    \E k \in 1..Len(trace) :
        /\ ReachedGuard(k)
        /\ Obstructed(k)
        /\ PathIsFile(trace[k].pre, PathParent(DestinationPath(k)))
        /\ trace[k].result.error = "mkdir_failed"
        /\ PathIsFile(trace[k].post, SourcePath(k))

\* C27: a failure result means nothing was moved: whenever
\* _execute_single_action returns success = false, the regular files and
\* their contents are the same as before the operation.
C27_FailureMovesNothing ==
    \A k \in 1..Len(trace) :
        ~trace[k].result.success =>
            /\ FilesOf(trace[k].post) = FilesOf(trace[k].pre)
            /\ \A q \in FilesOf(trace[k].pre) : trace[k].post[q] = trace[k].pre[q]

\* a plan was handed to the executor by the handler that has just returned
PlanApplied ==
    /\ ui.last.handler = "execute_organization_plan"
    /\ ui.last.outcome \in {"report", "failed"}

\* C28: at every execute_organization_plan that applies a plan, the
\* executor's base_path equals the scanner's base_path, the directory of
\* the most recent successful scan.
C28_ExecutorFollowsScanner ==
    PlanApplied => ui.last.executor_base = ui.last.scanner_base

\* C29: the plan applied by execute_organization_plan was generated for
\* the directory of the most recent scan: a plan generated for a directory
\* scanned earlier is never applied after another directory was scanned.
C29_PlanOfLatestScan ==
    PlanApplied => ui.last.plan_base = ui.last.scanner_base

\* C30: a generated plan is applied at most once: after
\* execute_organization_plan has run a plan current_actions is empty, and
\* a further execute_organization_plan without a new plan from
\* auto_organize reports that there is nothing to execute, leaves the
\* filesystem as it is and applies nothing.
C30_PlanAppliedOnce ==
    /\ [](ui.plan_runs <= 1)
    /\ []((ui.last.handler = "execute_organization_plan"
              /\ ui.last.outcome = "report") => ui.current_actions = <<>>)
    /\ [][(ui.plan_runs >= 1
              /\ ui'.last.handler = "execute_organization_plan")
          => /\ ui'.last.outcome = "nothing_to_execute"
             /\ fs' = fs
             /\ ui'.executions = ui.executions]_vars

\* C30 witness: a plan that moved a file has run, and a further
\* execute_organization_plan without a new plan found nothing to execute
C30_Witness ==
    /\ ui.last.handler = "execute_organization_plan"
    /\ ui.last.outcome = "nothing_to_execute"
    /\ ui.plan_runs = 1
    /\ ui.executions >= 1
    /\ fs # fs0

====
